---------------------------- MODULE Spec2Model ----------------------------
(***************************************************************************)
(* A model of the plaintiff/outcome cleaning and clustering scripts of     *)
(* 2021Philly (src/src/cleanCountOutcomes.py, src/src/cleanPlaintiffs.py). *)
(*                                                                         *)
(* Python strings are sequences of one-character strings, so that the      *)
(* regular expressions, strip(), split() and upper() act on characters as  *)
(* they do in the code.  The alphabet has no newline: '.' and '$' of the   *)
(* regular expressions are modelled for single-line text.                  *)
(***************************************************************************)
EXTENDS Integers, Sequences, FiniteSets, TLC

VARIABLES
    textFn,     \* the cleaning function under call ("" when none is)
    textIn,     \* the value passed to it
    textOut,    \* the values returned so far, one per application
    textPc      \* "call", "returned", "pdb" (paused in the debugger), "raised"

VARIABLES
    pc,                 \* the statement of main the run is at
    args,               \* the parsed command line
    csvDF,              \* the table read from the csv file
    df,                 \* the table main works on, a sequence of rows
    cleanedValueCounts, \* the histogram plaintiffList returns
    outcomes,           \* the histogram outcomeList returns
    pickle,             \* the similarity matrix in the pickle file
    dbfit,              \* dbfit.labels_, one label per name of the matrix
    clusterDF,          \* one row per label: its Count and its names
    ind,                \* the index of the labeling loop
    clusterNames,       \* the representatives the loop has appended
    comparedPO,         \* the files written by to_csv, at most one
    printed,            \* the duplicate counts printed, in order
    error               \* the exception that ended the run, "" when none

textVars == <<textFn, textIn, textOut, textPc>>

runVars == <<pc, args, csvDF, df, cleanedValueCounts, outcomes, pickle, dbfit,
             clusterDF, ind, clusterNames, comparedPO, printed, error>>

vars == <<textFn, textIn, textOut, textPc,
          pc, args, csvDF, df, cleanedValueCounts, outcomes, pickle, dbfit,
          clusterDF, ind, clusterNames, comparedPO, printed, error>>

-----------------------------------------------------------------------------
(* Characters and the str methods the code uses *)

UpperSeq == <<"A","B","C","D","E","F","G","H","I","J","K","L","M",
              "N","O","P","Q","R","S","T","U","V","W","X","Y","Z">>
LowerSeq == <<"a","b","c","d","e","f","g","h","i","j","k","l","m",
              "n","o","p","q","r","s","t","u","v","w","x","y","z">>
DigitSeq == <<"0","1","2","3","4","5","6","7","8","9">>

Range(f) == {f[i] : i \in DOMAIN f}

UpperChars == Range(UpperSeq)
LowerChars == Range(LowerSeq)
DigitChars == Range(DigitSeq)
\* \w of the re module, on ASCII text
WordChars == UpperChars \cup LowerChars \cup DigitChars \cup {"_"}
\* \s of the re module and the characters str.strip() removes
SpaceChars == {" "}

SetMin(S) == CHOOSE x \in S : \A y \in S : x <= y
SetMax(S) == CHOOSE x \in S : \A y \in S : x >= y

\* str.strip()
Strip(s) ==
    LET keep == {i \in 1..Len(s) : s[i] \notin SpaceChars}
    IN  IF keep = {} THEN <<>> ELSE SubSeq(s, SetMin(keep), SetMax(keep))

\* s.split('.')[0]: the text before the first period
BeforeFirstPeriod(s) ==
    LET dots == {i \in 1..Len(s) : s[i] = "."}
    IN  IF dots = {} THEN s ELSE SubSeq(s, 1, SetMin(dots) - 1)

\* \b at the gap before position i (i in 1..Len(s)+1)
IsWordAt(s, i) == i >= 1 /\ i <= Len(s) /\ s[i] \in WordChars
WordBoundary(s, i) == IsWordAt(s, i - 1) # IsWordAt(s, i)

\* the position after the longest run of characters of class cls from i
RunEnd(s, i, cls) ==
    LET stops == {j \in i..Len(s) : s[j] \notin cls}
    IN  IF stops = {} THEN Len(s) + 1 ELSE SetMin(stops)

-----------------------------------------------------------------------------
(* cleanCountOutcomes.py: endCaps, datetimeToEnd, cleanOutcome *)

\* \b[A-Z]+\b at position i: an all-caps word, which [A-Z]+ must take whole
\* for the closing \b to hold
CapsWordAt(s, i) ==
    /\ i <= Len(s)
    /\ s[i] \in UpperChars
    /\ WordBoundary(s, i)
    /\ WordBoundary(s, RunEnd(s, i, UpperChars))

\* (?:\s[A-Z]+\b)*\.*$ from position j, the position after a caps word
RECURSIVE EndCapsRest(_, _)
EndCapsRest(s, j) ==
    IF RunEnd(s, j, {"."}) = Len(s) + 1
    THEN TRUE
    ELSE /\ j + 1 <= Len(s)
         /\ s[j] \in SpaceChars
         /\ s[j + 1] \in UpperChars
         /\ WordBoundary(s, RunEnd(s, j + 1, UpperChars))
         /\ EndCapsRest(s, RunEnd(s, j + 1, UpperChars))

\* endCaps = (\b(?:[A-Z]+)\b(?:\s[A-Z]+\b)*\.*)$
endCapsMatchAt(s, i) ==
    CapsWordAt(s, i) /\ EndCapsRest(s, RunEnd(s, i, UpperChars))

\* endCaps.sub('', s): the leftmost match runs to the end of the string
endCapsSub(s) ==
    LET starts == {i \in 1..Len(s) : endCapsMatchAt(s, i)}
    IN  IF starts = {} THEN s ELSE SubSeq(s, 1, SetMin(starts) - 1)

\* n to m characters of class cls from position i, then the literal next:
\* the positions after the literal that the match can reach
AfterRun(s, i, cls, n, m, next) ==
    {j + 1 : j \in {k \in (i + n)..(i + m) :
                      /\ k <= Len(s)
                      /\ \A x \in i..(k - 1) : s[x] \in cls
                      /\ s[k] = next}}

\* datetimeToEnd = (\s\d{1,2}/\d{1,2}/\d{4} \d{1,2}:\d{2} [AP]M.*)$
datetimeMatchAt(s, i) ==
    /\ i <= Len(s)
    /\ s[i] \in SpaceChars
    /\ \E a \in AfterRun(s, i + 1, DigitChars, 1, 2, "/") :
       \E b \in AfterRun(s, a, DigitChars, 1, 2, "/") :
       \E c \in AfterRun(s, b, DigitChars, 4, 4, " ") :
       \E d \in AfterRun(s, c, DigitChars, 1, 2, ":") :
       \E e \in AfterRun(s, d, DigitChars, 2, 2, " ") :
          /\ e + 1 <= Len(s)
          /\ s[e] \in {"A", "P"}
          /\ s[e + 1] = "M"

\* datetimeToEnd.sub('', s)
datetimeToEndSub(s) ==
    LET starts == {i \in 1..Len(s) : datetimeMatchAt(s, i)}
    IN  IF starts = {} THEN s ELSE SubSeq(s, 1, SetMin(starts) - 1)

\* math.nan, the value pandas gives a blank or NULL field
NaN == <<"nan">>
BlankOrNull == <<"B","l","a","n","k"," ","o","r"," ","N","U","L","L">>

\* cleanOutcome with the closing .strip() of line 84 left out
cleanOutcomeNoFinalStrip(dirtyString) ==
    IF dirtyString = NaN
    THEN BlankOrNull
    ELSE datetimeToEndSub(BeforeFirstPeriod(Strip(endCapsSub(dirtyString))))

cleanOutcome(dirtyString) ==
    IF dirtyString = NaN
    THEN BlankOrNull
    ELSE LET cleanedString == Strip(endCapsSub(dirtyString))
             firstCleaned  == BeforeFirstPeriod(cleanedString)
             dateCleaned   == Strip(datetimeToEndSub(firstCleaned))
         IN  dateCleaned

-----------------------------------------------------------------------------
(* cleanPlaintiffs.py: llcMatch, alphaMatch, cleanco's basename, cleanPlaintiff *)

IndexIn(seq, c) == CHOOSE i \in DOMAIN seq : seq[i] = c

\* str.lower() and str.upper() on one ASCII character
LowerOf(c) == IF c \in UpperChars THEN LowerSeq[IndexIn(UpperSeq, c)] ELSE c
UpperOf(c) == IF c \in LowerChars THEN UpperSeq[IndexIn(LowerSeq, c)] ELSE c

\* the literal lit, a lower-case string, at position i of s, ignoring case
LiteralAt(s, i, lit) ==
    /\ i + Len(lit) - 1 <= Len(s)
    /\ \A k \in 1..Len(lit) : LowerOf(s[i + k - 1]) = lit[k]

\* the four literal alternatives of llcMatch
llcLiterals ==
    { <<"l","l","c">>,
      <<",">>,
      <<"a","/","s","/","o">>,
      <<"a","s"," ","s","u","b","r","o","g","e","e"," ","o","f">> }

\* llcMatch = (llc|,|a/s/o|as subrogee of|\saso\s).* with re.I
llcMatchAt(s, i) ==
    \/ \E lit \in llcLiterals : LiteralAt(s, i, lit)
    \/ /\ i + 4 <= Len(s)
       /\ s[i] \in SpaceChars
       /\ LiteralAt(s, i + 1, <<"a","s","o">>)
       /\ s[i + 4] \in SpaceChars

\* llcMatch.sub('', s): the leftmost marker and all the text after it
llcMatchSub(s) ==
    LET starts == {i \in 1..Len(s) : llcMatchAt(s, i)}
    IN  IF starts = {} THEN s ELSE SubSeq(s, 1, SetMin(starts) - 1)

\* alphaMatch = [^a-z A-Z0-9]; alphaMatch.sub('', s)
AlphaChars == LowerChars \cup UpperChars \cup DigitChars \cup {" "}
alphaMatchSub(s) == SelectSeq(s, LAMBDA c : c \in AlphaChars)

\* str.upper()
Upper(s) == [i \in 1..Len(s) |-> UpperOf(s[i])]

\* str.split(): the runs of characters that are not whitespace, in order
RECURSIVE SplitFrom(_, _)
SplitFrom(s, i) ==
    IF i > Len(s)
    THEN <<>>
    ELSE IF s[i] \in SpaceChars
         THEN SplitFrom(s, i + 1)
         ELSE LET e == SetMin({j \in (i + 1)..(Len(s) + 1) :
                                   j = Len(s) + 1 \/ s[j] \in SpaceChars})
              IN  <<SubSeq(s, i, e - 1)>> \o SplitFrom(s, e)
Split(s) == SplitFrom(s, 1)

\* " ".join(parts)
RECURSIVE Join(_)
Join(parts) ==
    IF parts = <<>>
    THEN <<>>
    ELSE IF Len(parts) = 1
         THEN parts[1]
         ELSE parts[1] \o <<" ">> \o Join(Tail(parts))

\* cleanco strip_tail: drops the trailing characters that are neither a
\* period nor a word character ([^\.\w]+$)
strip_tail(name) ==
    LET keep == {i \in 1..Len(name) : name[i] \in WordChars \cup {"."}}
    IN  IF keep = {} THEN <<>> ELSE SubSeq(name, 1, SetMax(keep))

\* a strip_punct that leaves the periods in
strip_punctKeepsPeriod(t) ==
    SelectSeq([i \in 1..Len(t) |-> LowerOf(t[i])],
              LAMBDA c : c \notin {",", "-"})

\* cleanco strip_punct of a casefolded name part
strip_punct(t) ==
    SelectSeq([i \in 1..Len(t) |-> LowerOf(t[i])],
              LAMBDA c : c \notin {".", ",", "-"})

\* prepare_terms(): the legal-entity terms, normalised, in the order basename
\* tries them (ascending for terms of one word).  The terms kept are those
\* of cleanco's lexicon that the names of the model can end in.
cleanco_terms ==
    << <<"c","o">>,
       <<"c","o","m","p","a","n","y">>,
       <<"c","o","r","p">>,
       <<"c","o","r","p","o","r","a","t","i","o","n">>,
       <<"i","n","c">>,
       <<"i","n","c","o","r","p","o","r","a","t","e","d">>,
       <<"l","l","c">>,
       <<"l","p">>,
       <<"l","t","d">> >>

\* the suffix loop of basename: one pass over the terms, dropping the last
\* part each time it is the term at hand
RECURSIVE StripSuffixes(_, _, _)
StripSuffixes(nparts, terms, k) ==
    IF k > Len(terms)
    THEN nparts
    ELSE IF nparts # <<>> /\ strip_punct(nparts[Len(nparts)]) = terms[k]
         THEN StripSuffixes(SubSeq(nparts, 1, Len(nparts) - 1), terms, k + 1)
         ELSE StripSuffixes(nparts, terms, k + 1)

\* basename that leaves the legal-entity terms in place
basenameKeepsSuffix(name, terms) == strip_tail(name)

\* cleanco basename(name, terms, prefix=False, middle=False, suffix=True)
basename(name, terms) ==
    strip_tail(Join(StripSuffixes(Split(strip_tail(name)), terms, 1)))

\* cleanedOut of cleanPlaintiff: the value line 119 computes and line 123
\* returns
\* a cleanPlaintiff without the branch of lines 104-108: NaN is cleaned as
\* the text 'nan'
cleanPlaintiffCleansNaN(fullPlaintiff) ==
    LET text          == IF fullPlaintiff = NaN THEN <<"n", "a", "n">>
                                                ELSE fullPlaintiff
        cleanedString == Strip(llcMatchSub(text))
        based         == basename(cleanedString, cleanco_terms)
        cleanco_name  == IF based = <<>> THEN cleanedString ELSE based
        cleanedOut    == Upper(Strip(alphaMatchSub(cleanco_name)))
    IN  cleanedOut

cleanPlaintiff(fullPlaintiff) ==
    IF fullPlaintiff = NaN
    THEN BlankOrNull
    ELSE LET cleanedString == Strip(llcMatchSub(fullPlaintiff))
             based         == basename(cleanedString, cleanco_terms)
             cleanco_name  == IF based = <<>> THEN cleanedString ELSE based
             cleanedOut    == Upper(Strip(alphaMatchSub(cleanco_name)))
         IN  cleanedOut

-----------------------------------------------------------------------------
(* pandas: value_counts, mode, and the order of strings *)

\* the characters of the model in code-point order
CharOrder == <<" ", "&", ",", "-", ".", "/">> \o DigitSeq \o <<":">>
             \o UpperSeq \o <<"_">> \o LowerSeq
Ord(c) == IndexIn(CharOrder, c)

\* a < b for Python strings
RECURSIVE StrLess(_, _)
StrLess(a, b) ==
    IF b = <<>> THEN FALSE
    ELSE IF a = <<>> THEN TRUE
    ELSE IF a[1] = b[1] THEN StrLess(Tail(a), Tail(b))
    ELSE Ord(a[1]) < Ord(b[1])

\* the least string of a non-empty set
StrMin(S) == CHOOSE x \in S : \A y \in S : y = x \/ StrLess(x, y)

\* the strings of S in ascending order
RECURSIVE SortedStrs(_)
SortedStrs(S) ==
    IF S = {} THEN <<>> ELSE <<StrMin(S)>> \o SortedStrs(S \ {StrMin(S)})

CountOf(values, v) == Cardinality({i \in DOMAIN values : values[i] = v})

\* the distinct values of a column in the order they first appear
RECURSIVE FirstSeen(_)
FirstSeen(values) ==
    IF values = <<>>
    THEN <<>>
    ELSE LET front == FirstSeen(SubSeq(values, 1, Len(values) - 1))
             last  == values[Len(values)]
         IN  IF last \in Range(front) THEN front ELSE Append(front, last)

\* Series.value_counts(): the distinct values with their counts, the larger
\* count first, equal counts in the order the values first appear
RECURSIVE ByCount(_, _, _)
ByCount(values, seen, n) ==
    IF n = 0
    THEN <<>>
    ELSE SelectSeq(seen, LAMBDA v : CountOf(values, v) = n)
         \o ByCount(values, seen, n - 1)
value_counts(values) ==
    LET names == ByCount(values, FirstSeen(values), Len(values))
    IN  [i \in 1..Len(names) |-> [name |-> names[i], count |-> CountOf(values, names[i])]]

\* a mode that keeps the most frequent values in the order they appear
modeFirstSeen(values) ==
    SelectSeq(FirstSeen(values),
              LAMBDA v : \A w \in Range(values) :
                             CountOf(values, w) <= CountOf(values, v))

\* Series.mode(): the most frequent values, sorted ascending
mode(values) ==
    LET top == {v \in Range(values) :
                  \A w \in Range(values) : CountOf(values, w) <= CountOf(values, v)}
    IN  SortedStrs(top)

-----------------------------------------------------------------------------
(* jellyfish.jaro_similarity, similarNameList, createSimilarityMatrix *)

\* Similarities, distances and eps are exact fractions <<numerator,
\* denominator>> with a positive denominator, where the code has floats.
One == <<1, 1>>
Zero == <<0, 1>>
LessEq(x, y) == x[1] * y[2] <= y[1] * x[2]
\* two fractions are the same number
FracEq(x, y) == x[1] * y[2] = y[1] * x[2]
OneMinus(x) == <<x[2] - x[1], x[2]>>

Max2(a, b) == IF a >= b THEN a ELSE b
Min2(a, b) == IF a <= b THEN a ELSE b

\* the matching loop of jaro: for each character of s1 in turn, the first
\* unmatched equal character of s2 within the search range.  The result is
\* the sequence of matched pairs <<i, j>>.
RECURSIVE JaroMatches(_, _, _, _, _)
JaroMatches(s1, s2, range, i, pairs) ==
    IF i > Len(s1)
    THEN pairs
    ELSE LET used == {pairs[k][2] : k \in DOMAIN pairs}
             low  == Max2(1, i - range)
             hi   == Min2(i + range, Len(s2))
             hits == {j \in low..hi : j \notin used /\ s2[j] = s1[i]}
         IN  IF hits = {}
             THEN JaroMatches(s1, s2, range, i + 1, pairs)
             ELSE JaroMatches(s1, s2, range, i + 1, Append(pairs, <<i, SetMin(hits)>>))

\* the k-th least element of a set of numbers
RECURSIVE Nth(_, _)
Nth(S, k) == IF k = 1 THEN SetMin(S) ELSE Nth(S \ {SetMin(S)}, k - 1)

\* jellyfish.jaro_similarity(s1, s2)
jaro_similarity(s1, s2) ==
    IF s1 = <<>> \/ s2 = <<>>
    THEN Zero
    ELSE LET longer == Max2(Len(s1), Len(s2))
             range  == Max2(0, (longer \div 2) - 1)
             pairs  == JaroMatches(s1, s2, range, 1, <<>>)
             common == Len(pairs)
             flags2 == {pairs[k][2] : k \in DOMAIN pairs}
             \* matched characters that differ, the two strings read in order
             trans  == Cardinality({k \in DOMAIN pairs :
                                      s1[pairs[k][1]] # s2[Nth(flags2, k)]}) \div 2
         IN  IF common = 0
             THEN Zero
             ELSE << common * common * Len(s2) + common * common * Len(s1)
                       + (common - trans) * Len(s1) * Len(s2),
                     3 * Len(s1) * Len(s2) * common >>

\* a call of a comparison function passed by name; createSimilarityMatrix
\* passes jellyfish.jaro_similarity and no other
Call(compare_function, s1, s2) ==
    CASE compare_function = "jellyfish.jaro_similarity" -> jaro_similarity(s1, s2)

\* a similarNameList that does not compare a name with itself
similarNameListSkipSelf(testName, matchList, compare_function) ==
    [k \in 1..Len(matchList) |->
        IF matchList[k] = testName
        THEN Zero
        ELSE Call(compare_function, matchList[k], testName)]

\* similarNameList(testName, matchList, compare_function): the comparison of
\* every name of matchList with testName; cutoff and nReturned are not used
similarNameList(testName, matchList, compare_function) ==
    [k \in 1..Len(matchList) |-> Call(compare_function, matchList[k], testName)]

\* A similarity matrix as pickled: a DataFrame with the names as index and
\* as columns, values[r][c] the entry of row r and column c.
Matrix(names, values) == [index |-> names, columns |-> names, values |-> values]

\* the names of a value_counts result, in its order
IndexOf(counts) == [i \in 1..Len(counts) |-> counts[i].name]

\* createSimilarityMatrix(cleanedValueCounts): the DataFrame it pickles
createSimilarityMatrix(valueCounts) ==
    LET names == IndexOf(valueCounts)
    IN  Matrix(names,
               [r \in 1..Len(names) |->
                   similarNameList(names[r], names, "jellyfish.jaro_similarity")])

-----------------------------------------------------------------------------
(* dbscanFit: sklearn DBSCAN(eps, min_samples, metric='precomputed') *)

\* distanceNames = 1 - similarNames
DistanceOf(similarNames) ==
    [r \in DOMAIN similarNames.values |->
        [c \in DOMAIN similarNames.values[r] |-> OneMinus(similarNames.values[r][c])]]

\* a neighbourhood that looks only at the samples from i on
NeighborhoodForward(dist, eps, i) ==
    SelectSeq([j \in 1..Len(dist[i]) |-> j],
              LAMBDA j : j >= i /\ LessEq(dist[i][j], eps))

\* the samples within eps of sample i, in index order
Neighborhood(dist, eps, i) ==
    SelectSeq([j \in 1..Len(dist[i]) |-> j], LAMBDA j : LessEq(dist[i][j], eps))

\* dbscan_inner: the depth-first growth of cluster label_num from sample i
RECURSIVE DbscanGrow(_, _, _, _, _, _)
DbscanGrow(hood, is_core, labels, stack, i, label_num) ==
    LET fresh   == labels[i] = -1
        labels1 == IF fresh THEN [labels EXCEPT ![i] = label_num] ELSE labels
        stack1  == IF fresh /\ is_core[i]
                   THEN stack \o SelectSeq(hood[i], LAMBDA v : labels1[v] = -1)
                   ELSE stack
    IN  IF stack1 = <<>>
        THEN labels1
        ELSE DbscanGrow(hood, is_core, labels1,
                        SubSeq(stack1, 1, Len(stack1) - 1),
                        stack1[Len(stack1)], label_num)

\* dbscan_inner: the loop over the samples
RECURSIVE DbscanLoop(_, _, _, _, _)
DbscanLoop(hood, is_core, labels, i, label_num) ==
    IF i > Len(labels)
    THEN labels
    ELSE IF labels[i] # -1 \/ ~is_core[i]
         THEN DbscanLoop(hood, is_core, labels, i + 1, label_num)
         ELSE DbscanLoop(hood, is_core,
                         DbscanGrow(hood, is_core, labels, <<>>, i, label_num),
                         i + 1, label_num + 1)

\* a DBSCAN whose core points need more than min_samples neighbours
DBSCANStrictCore(dist, eps, min_samples) ==
    LET n       == Len(dist)
        hood    == [i \in 1..n |-> Neighborhood(dist, eps, i)]
        is_core == [i \in 1..n |-> Len(hood[i]) > min_samples]
    IN  DbscanLoop(hood, is_core, [i \in 1..n |-> -1], 1, 0)

\* DBSCAN(...).fit(distanceNames).labels_
DBSCAN(dist, eps, min_samples) ==
    LET n       == Len(dist)
        hood    == [i \in 1..n |-> Neighborhood(dist, eps, i)]
        is_core == [i \in 1..n |-> Len(hood[i]) >= min_samples]
    IN  DbscanLoop(hood, is_core, [i \in 1..n |-> -1], 1, 0)

\* dbscanFit(fname, eps, min_samples=2) on the matrix read from fname
dbscanFit(similarNames, eps, min_samples) ==
    DBSCAN(DistanceOf(similarNames), eps, min_samples)

-----------------------------------------------------------------------------
(* The tables, command lines and pickle files of the bounded runs *)

\* the most rows of a table
MaxRows == 4

Row(plaintiff, outcome, docket) ==
    [Plaintiff |-> plaintiff, Outcome |-> outcome, Docket |-> docket]

MidlandLLC   == <<"M","i","d","l","a","n","d"," ","F","u","n","d","i","n","g"," ","L","L","C">>
MidlandComma == <<"M","i","d","l","a","n","d"," ","F","u","n","d","i","n","g",","," ","L","L","C">>
AbcCorp      == <<"A","B","C"," ","C","o","r","p">>
XyzInc       == <<"X","Y","Z"," ","I","n","c">>
XyzIncorporated ==
    <<"X","Y","Z"," ","I","n","c","o","r","p","o","r","a","t","e","d">>
Xyz2Inc      == <<"X","Y","Z"," ","2"," ","I","n","c">>

JudgmentFinal ==
    <<"J","u","d","g","m","e","n","t"," ","f","o","r"," ","P","l","a","i","n",
      "t","i","f","f","."," ","F","I","N","A","L">>
Dismissed == <<"D","i","s","m","i","s","s","e","d">>

\* the table of the end-to-end scenario: five rows, one per plaintiff
EndToEndTable ==
    << Row(MidlandLLC, JudgmentFinal, 1),
       Row(MidlandComma, Dismissed, 2),
       Row(AbcCorp, Dismissed, 3),
       Row(XyzInc, JudgmentFinal, 4),
       Row(XyzIncorporated, Dismissed, 5) >>

\* the rows tables are made of: those of the scenario and one more plaintiff
RowPool == Range(EndToEndTable) \cup {Row(Xyz2Inc, Dismissed, 6)}

\* the sequences of at most n different elements of S
RECURSIVE Arrangements(_, _)
Arrangements(S, n) ==
    IF n = 0
    THEN {<<>>}
    ELSE LET shorter == Arrangements(S, n - 1)
         IN  shorter \cup
             UNION {{Append(t, x) : x \in S \ Range(t)} : t \in shorter}

\* tables without duplicate rows, as cleanWholeDF returns them
CleanTables == (Arrangements(RowPool, MaxRows) \ {<<>>}) \cup {EndToEndTable}

\* --eps: 0 stands for an option not given (None and 0.0 are both false
\* at line 332)
EpsArgs == {Zero, <<3, 20>>}
DefaultEps == <<1, 10>>

\* the similarities a loaded matrix holds off its diagonal
SimLevels == {<<1, 2>>, <<19, 20>>}

PairsOf(n) == {p \in (1..n) \X (1..n) : p[1] < p[2]}

\* the symmetric n by n tables of similarities with 1 on the diagonal
SymmetricValues(n) ==
    { [r \in 1..n |-> [c \in 1..n |->
          IF r = c THEN One ELSE f[<<Min2(r, c), Max2(r, c)>>]]] :
      f \in [PairsOf(n) -> SimLevels] }

\* names of an older table, which no row of the bounded tables cleans to
OldNames == << <<"A","C","M","E">>, <<"A","C","M","E"," ","2">> >>

\* the index of a matrix pickled from an older table: as long as the index
\* of the current one, the old names first
StaleIndex(names) == SubSeq(OldNames \o names, 1, Len(names))

\* no pickle file
NoFile == Matrix(<<>>, <<>>)

\* the pickle files -p can name for a table whose distinct cleaned names
\* are names: pickled from this table or from an older one
PickleFiles(names) ==
    { Matrix(idx, v) : idx \in {names, StaleIndex(names)},
                       v \in SymmetricValues(Len(names)) }

\* main's args
Args(similarity, picklefile, eps) ==
    [similarity |-> similarity, picklefile |-> picklefile, eps |-> eps]

-----------------------------------------------------------------------------
(* cleanCountOutcomes.py: cleanWholeDF *)

\* df.duplicated(keep='first'): True for a row equal to an earlier one
duplicated(rows) ==
    [i \in 1..Len(rows) |-> \E j \in 1..(i - 1) : rows[j] = rows[i]]

\* a drop_duplicates that keeps the last of equal rows
drop_duplicatesKeepLast(rows) ==
    LET keep == {i \in 1..Len(rows) :
                   ~\E j \in (i + 1)..Len(rows) : rows[j] = rows[i]}
    IN  [k \in 1..Cardinality(keep) |-> rows[Nth(keep, k)]]

\* df.drop_duplicates(keep='first')
drop_duplicates(rows) ==
    LET keep == {i \in 1..Len(rows) : ~duplicated(rows)[i]}
    IN  [k \in 1..Cardinality(keep) |-> rows[Nth(keep, k)]]

\* cleanWholeDF(df): the count it prints and the table it returns
cleanWholeDF(rows) ==
    [ found |-> Cardinality({i \in 1..Len(rows) : duplicated(rows)[i]}),
      df    |-> drop_duplicates(rows) ]

-----------------------------------------------------------------------------
(* cleanPlaintiffs.py: plaintiffList, cleanCountOutcomes.py: outcomeList *)

Column(rows, field) == [i \in 1..Len(rows) |-> rows[i][field]]

\* df.assign(field=values): a column more, the rows and their fields kept
Assign(rows, field, values) ==
    [i \in 1..Len(rows) |->
        [f \in DOMAIN rows[i] \cup {field} |->
            IF f = field THEN values[i] ELSE rows[i][f]]]

\* a plaintiffList that drops the rows whose name cleans to ''
plaintiffListDropsBlank(rows) ==
    LET kept == SelectSeq(rows, LAMBDA row : cleanPlaintiff(row.Plaintiff) # <<>>)
        cleanedPlaintiffs ==
            [i \in 1..Len(kept) |-> cleanPlaintiff(kept[i].Plaintiff)]
    IN  << value_counts(cleanedPlaintiffs),
           Assign(kept, "PlaintiffCleaned", cleanedPlaintiffs) >>

\* plaintiffList(df, 'Plaintiff Name(s)')
plaintiffList(rows) ==
    LET cleanedPlaintiffs ==
            [i \in 1..Len(rows) |-> cleanPlaintiff(rows[i].Plaintiff)]
    IN  << value_counts(cleanedPlaintiffs),
           Assign(rows, "PlaintiffCleaned", cleanedPlaintiffs) >>

\* outcomeList(df, 'Case Outcome')
outcomeList(rows) ==
    LET cleanedOutcomes ==
            [i \in 1..Len(rows) |-> cleanOutcome(rows[i].Outcome)]
    IN  << value_counts(cleanedOutcomes),
           Assign(rows, "OutcomeCleaned", cleanedOutcomes) >>

-----------------------------------------------------------------------------
(* cleanPlaintiffs.py main, lines 320 to 383: the stages after duplicate    *)
(* removal, run on a table without duplicate rows                           *)

\* min_samples of dbscanFit
MinSamples == 2
\* the label DBSCAN gives noise, and the ClusterNum of unclustered rows
NoiseLabel == -1
\* the values ClusterNum and ClusterName are set to before the loop
UnsetClusterNum == -5
UnsetClusterName == <<"Z","Z","-","U","n","c","l","u","s","t","e","r","e","d">>

TextIdle ==
    /\ textFn = ""
    /\ textIn = <<>>
    /\ textOut = <<>>
    /\ textPc = "idle"

Init ==
    /\ TextIdle
    /\ pc = "plaintiffList"
    /\ csvDF \in CleanTables
    /\ df = csvDF
    /\ args \in {Args(TRUE, FALSE, eps) : eps \in EpsArgs}
              \cup {Args(FALSE, TRUE, eps) : eps \in EpsArgs}
              \cup {Args(FALSE, FALSE, eps) : eps \in EpsArgs}
    /\ pickle = NoFile
    /\ cleanedValueCounts = <<>>
    /\ outcomes = <<>>
    /\ dbfit = <<>>
    /\ clusterDF = <<>>
    /\ ind = 0
    /\ clusterNames = <<>>
    /\ comparedPO = <<>>
    /\ printed = <<>>
    /\ error = ""

\* line 320.  No plaintiff of the bounded tables cleans to '', so no call of
\* cleanPlaintiff stops in the debugger here.
PlaintiffList ==
    /\ pc = "plaintiffList"
    /\ cleanedValueCounts' = plaintiffList(df)[1]
    /\ df' = plaintiffList(df)[2]
    /\ pc' = "outcomeList"
    /\ UNCHANGED <<textVars, printed, args, csvDF, outcomes, pickle, dbfit, clusterDF,
                   ind, clusterNames, comparedPO, error>>

\* line 321
OutcomeList ==
    /\ pc = "outcomeList"
    /\ outcomes' = outcomeList(df)[1]
    /\ df' = outcomeList(df)[2]
    /\ pc' = "similarity"
    /\ UNCHANGED <<textVars, printed, args, csvDF, cleanedValueCounts, pickle, dbfit,
                   clusterDF, ind, clusterNames, comparedPO, error>>

\* lines 323-324: -s computes the matrix and pickles it
CreateSimilarityMatrix ==
    /\ pc = "similarity"
    /\ args.similarity
    /\ pickle' = createSimilarityMatrix(cleanedValueCounts)
    /\ pc' = "dbscanFit"
    /\ UNCHANGED <<textVars, printed, args, csvDF, df, cleanedValueCounts, outcomes,
                   dbfit, clusterDF, ind, clusterNames, comparedPO, error>>

\* lines 325-326: -p names the pickle file to use, whatever it holds
UsePickleFile ==
    /\ pc = "similarity"
    /\ ~args.similarity
    /\ args.picklefile
    /\ pickle' \in PickleFiles(IndexOf(cleanedValueCounts))
    /\ pc' = "dbscanFit"
    /\ UNCHANGED <<textVars, printed, args, csvDF, df, cleanedValueCounts, outcomes,
                   dbfit, clusterDF, ind, clusterNames, comparedPO, error>>

\* a run that goes on to cluster when neither flag is given
RaiseNeedFlagFallsThrough ==
    /\ pc = "similarity"
    /\ ~args.similarity
    /\ ~args.picklefile
    /\ pickle' = createSimilarityMatrix(cleanedValueCounts)
    /\ pc' = "dbscanFit"
    /\ UNCHANGED <<textVars, printed, args, csvDF, df, cleanedValueCounts, outcomes,
                   dbfit, clusterDF, ind, clusterNames, comparedPO, error>>

\* lines 327-328: neither -s nor -p
RaiseNeedFlag ==
    /\ pc = "similarity"
    /\ ~args.similarity
    /\ ~args.picklefile
    /\ pc' = "aborted"
    /\ error' = "Exception"
    /\ UNCHANGED <<textVars, printed, args, csvDF, df, cleanedValueCounts, outcomes,
                   pickle, dbfit, clusterDF, ind, clusterNames, comparedPO>>

\* lines 332-335
EpsOf(a) == IF a.eps # Zero THEN a.eps ELSE DefaultEps

\* line 336
DbscanFit ==
    /\ pc = "dbscanFit"
    /\ dbfit' = dbscanFit(pickle, EpsOf(args), MinSamples)
    /\ pc' = "clusterDF"
    /\ UNCHANGED <<textVars, printed, args, csvDF, df, cleanedValueCounts, outcomes,
                   pickle, clusterDF, ind, clusterNames, comparedPO, error>>

\* the numbers of S in ascending order
RECURSIVE SortedNums(_)
SortedNums(S) ==
    IF S = {} THEN <<>> ELSE <<SetMin(S)>> \o SortedNums(S \ {SetMin(S)})

\* the order in which CPython iterates set(dbfit.labels_): a small integer
\* n >= 0 hashes to n and -1 hashes to -2, which lands in the last slot but
\* one of the table, so the labels come in ascending order with -1 last
clusterSetOrder(labels) ==
    SortedNums(Range(labels) \ {NoiseLabel})
    \o (IF NoiseLabel \in Range(labels) THEN <<NoiseLabel>> ELSE <<>>)

\* lines 347-352 and 362: one row per label, the names with that label in
\* the order of the matrix index, and a Count of -1
BuildClusterDF(similarNames, labels) ==
    LET order == clusterSetOrder(labels)
    IN  [k \in 1..Len(order) |->
            [Count |-> -1,
             names |-> SelectSeq(similarNames.index,
                                 LAMBDA n : \E i \in DOMAIN labels :
                                     similarNames.index[i] = n /\ labels[i] = order[k])]]

\* lines 337-363
ClusterDF ==
    /\ pc = "clusterDF"
    /\ clusterDF' = BuildClusterDF(pickle, dbfit)
    /\ df' = Assign(Assign(df, "ClusterNum", [i \in DOMAIN df |-> UnsetClusterNum]),
                    "ClusterName", [i \in DOMAIN df |-> UnsetClusterName])
    /\ clusterNames' = <<>>
    /\ ind' = 0
    /\ pc' = "label"
    /\ UNCHANGED <<textVars, printed, args, csvDF, cleanedValueCounts, outcomes, pickle,
                   dbfit, comparedPO, error>>

\* line 361
maxClusterIndex == Len(clusterDF) - 1

\* a selection by the first name of the cluster only
rowIndexerFirstName(rows, cluster) ==
    {r \in DOMAIN rows : rows[r].PlaintiffCleaned = cluster.names[1]}

\* line 366: the rows whose PlaintiffCleaned is in row ind of clusterDF
rowIndexer(rows, cluster) ==
    {r \in DOMAIN rows : rows[r].PlaintiffCleaned \in Range(cluster.names)}

\* the PlaintiffCleaned of the selected rows, in row order
Selected(rows, sel) ==
    Column(SelectSeq(rows, LAMBDA row : \E r \in sel : rows[r] = row),
           "PlaintiffCleaned")

\* lines 369-370: the rows of a cluster get its index and its representative
SetCluster(rows, sel, num, name) ==
    [r \in DOMAIN rows |->
        IF r \in sel
        THEN [rows[r] EXCEPT !.ClusterNum = num, !.ClusterName = name]
        ELSE rows[r]]

\* lines 373-374: the rows of the last row of clusterDF get -1 and their
\* own cleaned name
SetNoise(rows, sel) ==
    [r \in DOMAIN rows |->
        IF r \in sel
        THEN [rows[r] EXCEPT !.ClusterNum = NoiseLabel,
                             !.ClusterName = rows[r].PlaintiffCleaned]
        ELSE rows[r]]

\* the loop's way on: the next row of clusterDF, or line 379
AfterLabel == IF ind = maxClusterIndex THEN "crosstab" ELSE "label"

\* lines 366-371, for a row of clusterDF that is not the last
LabelCluster ==
    /\ pc = "label"
    /\ ind # maxClusterIndex
    /\ LET sel == rowIndexer(df, clusterDF[ind + 1])
       IN  /\ sel # {}
           /\ clusterDF' = [clusterDF EXCEPT ![ind + 1].Count = Cardinality(sel)]
           /\ df' = SetCluster(df, sel, ind, mode(Selected(df, sel))[1])
           /\ clusterNames' = Append(clusterNames, mode(Selected(df, sel))[1])
    /\ ind' = ind + 1
    /\ pc' = AfterLabel
    /\ UNCHANGED <<textVars, printed, args, csvDF, cleanedValueCounts, outcomes, pickle,
                   dbfit, comparedPO, error>>

\* line 370 when no row has a name of the cluster: mode() is empty and
\* mode()[0] raises KeyError
LabelKeyError ==
    /\ pc = "label"
    /\ ind # maxClusterIndex
    /\ rowIndexer(df, clusterDF[ind + 1]) = {}
    /\ clusterDF' = [clusterDF EXCEPT ![ind + 1].Count = 0]
    /\ pc' = "aborted"
    /\ error' = "KeyError"
    /\ UNCHANGED <<textVars, printed, args, csvDF, df, cleanedValueCounts, outcomes,
                   pickle, dbfit, ind, clusterNames, comparedPO>>

\* lines 366-367 and 372-374, for the last row of clusterDF
LabelNoise ==
    /\ pc = "label"
    /\ ind = maxClusterIndex
    /\ LET sel == rowIndexer(df, clusterDF[ind + 1])
       IN  /\ clusterDF' = [clusterDF EXCEPT ![ind + 1].Count = Cardinality(sel)]
           /\ df' = SetNoise(df, sel)
    /\ ind' = ind + 1
    /\ pc' = AfterLabel
    /\ UNCHANGED <<textVars, printed, args, csvDF, cleanedValueCounts, outcomes, pickle,
                   dbfit, clusterNames, comparedPO, error>>

\* lines 379-382: pd.crosstab(ClusterName, OutcomeCleaned) with the
\* Clustered column inserted
crosstab(rows, names) ==
    LET index   == SortedStrs(Range(Column(rows, "ClusterName")))
        columns == SortedStrs(Range(Column(rows, "OutcomeCleaned")))
    IN  [ index     |-> index,
          columns   |-> columns,
          Clustered |-> [i \in DOMAIN index |-> index[i] \in Range(names)],
          cells     |-> [i \in DOMAIN index |-> [j \in DOMAIN columns |->
                            Cardinality({r \in DOMAIN rows :
                                /\ rows[r].ClusterName = index[i]
                                /\ rows[r].OutcomeCleaned = columns[j]})]] ]

\* lines 379-383: the table is built and written
CrossTab ==
    /\ pc = "crosstab"
    /\ comparedPO' = <<crosstab(df, clusterNames)>>
    /\ pc' = "done"
    /\ UNCHANGED <<textVars, printed, args, csvDF, df, cleanedValueCounts, outcomes,
                   pickle, dbfit, clusterDF, ind, clusterNames, error>>

Next ==
    \/ PlaintiffList
    \/ OutcomeList
    \/ CreateSimilarityMatrix
    \/ UsePickleFile
    \/ RaiseNeedFlag
    \/ DbscanFit
    \/ ClusterDF
    \/ LabelCluster
    \/ LabelKeyError
    \/ LabelNoise
    \/ CrossTab

Spec == Init /\ [][Next]_vars

-----------------------------------------------------------------------------
(* Properties of the stages *)

\* the labeling loop has run to its end
Labeled == pc \in {"crosstab", "done"}

\* the matrix in use is indexed by the distinct cleaned names of the run
ValidIndex ==
    /\ pickle # NoFile
    /\ Range(pickle.index) = Range(IndexOf(cleanedValueCounts))

\* the label DBSCAN gave a name of the matrix index
LabelOf(name) == dbfit[IndexIn(pickle.index, name)]

\* the clusters DBSCAN discovered
Discovered == Range(dbfit) \ {NoiseLabel}

\* the run of the end-to-end scenario: the five rows, -s, eps = 0.15
EndToEndRun == csvDF = EndToEndTable /\ args = Args(TRUE, FALSE, <<3, 20>>)

MidlandFunding ==
    <<"M","I","D","L","A","N","D"," ","F","U","N","D","I","N","G">>

StaleMatrix ==
    /\ args.picklefile
    /\ ~args.similarity
    /\ pickle # NoFile
    /\ Range(pickle.index) # Range(IndexOf(cleanedValueCounts))

RowsHolding(name) == {k \in DOMAIN clusterDF : name \in Range(clusterDF[k].names)}

\* C7: with a matrix indexed by the run's distinct cleaned names the loop
\* ends without error, no row keeps the placeholders -5 / 'ZZ-Unclustered',
\* and every distinct name is in exactly one row of clusterDF, whose rows
\* hold no other names.
C7_EveryRowLabeledOnce ==
    ValidIndex
        => /\ error # "KeyError"
           /\ Labeled =>
                /\ \A r \in DOMAIN df :
                      /\ df[r].ClusterNum # UnsetClusterNum
                      /\ df[r].ClusterName # UnsetClusterName
                      /\ Cardinality(RowsHolding(df[r].PlaintiffCleaned)) = 1
                /\ \A k \in DOMAIN clusterDF :
                      Range(clusterDF[k].names) \subseteq Range(IndexOf(cleanedValueCounts))
                /\ \A n \in Range(IndexOf(cleanedValueCounts)) :
                      Cardinality(RowsHolding(n)) = 1

\* a loaded matrix of the run's names, a cluster of two names and noise
C7_Witness ==
    /\ pc = "done"
    /\ ValidIndex
    /\ args.picklefile
    /\ Len(clusterDF) = 2
    /\ NoiseLabel \in Range(dbfit)
    /\ Len(clusterDF[1].names) = 2

\* C9: with neither -s nor -p the run aborts with an exception; dbscanFit
\* is never called, no row gets a ClusterNum or ClusterName and no
\* contingency table is written.
C9_NoFlagAborts ==
    (~args.similarity /\ ~args.picklefile /\ pc # "idle")
        => /\ pc \in {"plaintiffList", "outcomeList", "similarity", "aborted"}
           /\ pc = "aborted" => error = "Exception"
           /\ dbfit = <<>>
           /\ \A r \in DOMAIN df :
                 DOMAIN df[r] \cap {"ClusterNum", "ClusterName"} = {}
           /\ comparedPO = <<>>

C9_Witness ==
    /\ ~args.similarity
    /\ ~args.picklefile
    /\ pc = "aborted"
    /\ error = "Exception"
    /\ cleanedValueCounts # <<>>

\* the number of rows with a cleaned name
Occurrences(name) == CountOf(Column(df, "PlaintiffCleaned"), name)

\* the names of row k of clusterDF with the most rows
TopMembers(k) ==
    {n \in Range(clusterDF[k].names) :
        \A m \in Range(clusterDF[k].names) : Occurrences(m) <= Occurrences(n)}

\* the first name of a set in the order of the distinct-name set
FirstInValueCounts(S) ==
    LET order == IndexOf(cleanedValueCounts)
    IN  order[SetMin({i \in DOMAIN order : order[i] \in S})]

\* the rows the loop gave cluster number k - 1
RowsOfCluster(k) == {r \in DOMAIN df : df[r].ClusterNum = k - 1}

MembersOf(l) == {n \in Range(pickle.index) : LabelOf(n) = l}

\* the representative of the discovered cluster l: of its names with the
\* most rows, the one mode()[0] takes
RepresentativeOf(l) ==
    StrMin({n \in MembersOf(l) :
               \A m \in MembersOf(l) : Occurrences(m) <= Occurrences(n)})

WithinEps(i, j) == LessEq(OneMinus(pickle.values[i][j]), EpsOf(args))

\* name i has at least min_samples names, itself included, within eps
IsCore(i) ==
    Cardinality({j \in DOMAIN pickle.index : WithinEps(i, j)}) >= MinSamples

SymmetricMatrix ==
    \A i, j \in DOMAIN pickle.values :
        /\ FracEq(pickle.values[i][j], pickle.values[j][i])
        /\ FracEq(pickle.values[i][i], One)

\* the names linked to one of group by a chain of names, each within eps
\* of the one before
RECURSIVE ComponentOf(_)
ComponentOf(group) ==
    LET grown == group \cup {j \in DOMAIN pickle.index :
                                \E i \in group : WithinEps(i, j)}
    IN  IF grown = group THEN group ELSE ComponentOf(grown)

\* the matrix with its names in the order order[1], order[2], ...
Reordered(order) ==
    Matrix([i \in DOMAIN pickle.index |-> pickle.index[order[i]]],
           [i \in DOMAIN pickle.index |->
               [j \in DOMAIN pickle.index |-> pickle.values[order[i]][order[j]]]])

\* labels and other put the same names together and leave the same names
\* as noise, other being the labels of the names in the order given
SamePartition(labels, other, order) ==
    \A i, j \in DOMAIN other :
        /\ other[i] = other[j] <=> labels[order[i]] = labels[order[j]]
        /\ other[i] = NoiseLabel <=> labels[order[i]] = NoiseLabel

\* the score function is symmetric on the names, with score(A, A) = 1
SymmetricScore(names) ==
    \A a, b \in Range(names) :
        /\ FracEq(jaro_similarity(a, b), jaro_similarity(b, a))
        /\ FracEq(jaro_similarity(a, a), One)

\* -s has built the matrix
MatrixBuilt == args.similarity /\ pickle # NoFile

\* C14: the matrix -s builds has the distinct cleaned names, in the same
\* order, on both axes and the score of every ordered pair of them; with a
\* symmetric score that gives a name 1 against itself, it is symmetric
\* with 1 on the diagonal.
C14_MatrixSymmetric ==
    MatrixBuilt
        => LET names == IndexOf(cleanedValueCounts)
               n     == Len(names)
           IN  /\ pickle.index = names
               /\ pickle.columns = names
               /\ \A i, j \in 1..n : i # j => names[i] # names[j]
               /\ DOMAIN pickle.values = 1..n
               /\ \A r \in 1..n :
                     /\ DOMAIN pickle.values[r] = 1..n
                     /\ \A c \in 1..n :
                           FracEq(pickle.values[r][c],
                                  jaro_similarity(names[c], names[r]))
               /\ SymmetricScore(names)
                     => \A r, c \in 1..n :
                          /\ FracEq(pickle.values[r][c], pickle.values[c][r])
                          /\ FracEq(pickle.values[r][r], One)

\* a matrix built over three names or more, two of them alike
C14_Witness ==
    /\ MatrixBuilt
    /\ Len(pickle.index) >= 3
    /\ SymmetricScore(pickle.index)
    /\ \E r, c \in DOMAIN pickle.index :
          r # c /\ ~FracEq(pickle.values[r][c], Zero)

\* the defaults of similarNameList's parameters cutoff (a percentage) and
\* nReturned
cutoff == 90
nReturned == 50

\* C18: similarNameList returns only the names of matchList whose match
\* value against testName is at least cutoff, and at most nReturned of
\* them (every row of the matrix of -s is one return value of it).
C18_OnlyMatchesAboveCutoff ==
    MatrixBuilt
        => \A r \in DOMAIN pickle.values :
              /\ Len(pickle.values[r]) <= nReturned
              /\ \A c \in DOMAIN pickle.values[r] :
                    LessEq(<<cutoff, 100>>, pickle.values[r][c])

-----------------------------------------------------------------------------
(* cleanPlaintiffs.py main as written, lines 316 to 319 *)

\* the tables a csv file can hold, duplicate rows included
RawTables == UNION {[1..n -> RowPool] : n \in 1..MaxRows}

InitMain ==
    /\ TextIdle
    /\ pc = "read_csv"
    /\ args \in {Args(s, p, eps) : s \in BOOLEAN, p \in BOOLEAN, eps \in EpsArgs}
    /\ csvDF = <<>>
    /\ df = <<>>
    /\ cleanedValueCounts = <<>>
    /\ outcomes = <<>>
    /\ pickle = NoFile
    /\ dbfit = <<>>
    /\ clusterDF = <<>>
    /\ ind = 0
    /\ clusterNames = <<>>
    /\ comparedPO = <<>>
    /\ printed = <<>>
    /\ error = ""

\* line 316
ReadCsv ==
    /\ pc = "read_csv"
    /\ csvDF' \in RawTables
    /\ pc' = "removeDuplicates"
    /\ UNCHANGED <<textVars, printed, args, df, cleanedValueCounts, outcomes, pickle,
                   dbfit, clusterDF, ind, clusterNames, comparedPO, error>>

\* line 319: cleanCountOutcomes has no attribute removeDuplicates (its
\* function is cleanWholeDF), so the call raises AttributeError
RemoveDuplicates ==
    /\ pc = "removeDuplicates"
    /\ pc' = "aborted"
    /\ error' = "AttributeError"
    /\ UNCHANGED <<textVars, printed, args, csvDF, df, cleanedValueCounts, outcomes,
                   pickle, dbfit, clusterDF, ind, clusterNames, comparedPO>>

NextMain == ReadCsv \/ RemoveDuplicates

SpecMain == InitMain /\ [][NextMain]_vars

-----------------------------------------------------------------------------
(* cleanCountOutcomes.py main, lines 117 to 147 *)

InitOutcomesMain ==
    /\ TextIdle
    /\ pc = "outcomes.read_csv"
    /\ args = Args(FALSE, FALSE, Zero)
    /\ csvDF = <<>>
    /\ df = <<>>
    /\ cleanedValueCounts = <<>>
    /\ outcomes = <<>>
    /\ pickle = NoFile
    /\ dbfit = <<>>
    /\ clusterDF = <<>>
    /\ ind = 0
    /\ clusterNames = <<>>
    /\ comparedPO = <<>>
    /\ printed = <<>>
    /\ error = ""

\* line 125
OutcomesReadCsv ==
    /\ pc = "outcomes.read_csv"
    /\ csvDF' \in RawTables
    /\ pc' = "cleanWholeDF"
    /\ UNCHANGED <<textVars, printed, args, df, cleanedValueCounts, outcomes,
                   pickle, dbfit, clusterDF, ind, clusterNames, comparedPO,
                   error>>

\* line 128: csvNoDups = cleanWholeDF(csvDF)
CleanWholeDF ==
    /\ pc = "cleanWholeDF"
    /\ printed' = Append(printed, cleanWholeDF(csvDF).found)
    /\ df' = cleanWholeDF(csvDF).df
    /\ pc' = "outcomes.outcomeList"
    /\ UNCHANGED <<textVars, args, csvDF, cleanedValueCounts, outcomes,
                   pickle, dbfit, clusterDF, ind, clusterNames, comparedPO,
                   error>>

\* line 139: outs = outcomeList(csvNoDups)[0]; the table it returns is
\* dropped
OutcomesOutcomeList ==
    /\ pc = "outcomes.outcomeList"
    /\ outcomes' = outcomeList(df)[1]
    /\ pc' = "done"
    /\ UNCHANGED <<textVars, printed, args, csvDF, df, cleanedValueCounts,
                   pickle, dbfit, clusterDF, ind, clusterNames, comparedPO,
                   error>>

NextOutcomesMain == OutcomesReadCsv \/ CleanWholeDF \/ OutcomesOutcomeList

SpecOutcomesMain == InitOutcomesMain /\ [][NextOutcomesMain]_vars

\* the place of the first row of a table equal to row
FirstPlace(rows, row) == SetMin({i \in DOMAIN rows : rows[i] = row})

\* C15: cleanWholeDF returns the rows with every exact duplicate removed
\* and the first occurrence kept: no two rows of the result are equal,
\* every distinct input row is in it, the kept rows are in their input
\* order, and the count reported is the number of rows removed.
C15_DuplicatesRemoved ==
    pc \in {"outcomes.outcomeList", "done"}
        => /\ \A a, b \in DOMAIN df : a # b => df[a] # df[b]
           /\ Range(df) = Range(csvDF)
           /\ \A a, b \in DOMAIN df :
                 a < b => FirstPlace(csvDF, df[a]) < FirstPlace(csvDF, df[b])
           /\ printed = <<Len(csvDF) - Len(df)>>

\* a table with a duplicate between two other rows, cleaned
C15_Witness ==
    /\ pc = "done"
    /\ Len(csvDF) >= 3
    /\ csvDF[1] = csvDF[3]
    /\ csvDF[2] # csvDF[1]
    /\ Len(df) < Len(csvDF)
    /\ printed # <<0>>

-----------------------------------------------------------------------------
(* correlations.py main, lines 34 to 42 *)

\* rows with a plaintiff that cleans to '' and with blank fields
BlankName == <<",", " ", "L", "L", "C">>
ListRowPool ==
    { Row(XyzInc, Dismissed, 1),
      Row(XyzIncorporated, JudgmentFinal, 2),
      Row(BlankName, Dismissed, 3),
      Row(NaN, NaN, 4),
      Row(AbcCorp, NaN, 5) }

ListTables == UNION {[1..n -> ListRowPool] : n \in 1..MaxRows}

InitCorrelations ==
    /\ TextIdle
    /\ pc = "corr.read_csv"
    /\ args = Args(FALSE, FALSE, Zero)
    /\ csvDF = <<>>
    /\ df = <<>>
    /\ cleanedValueCounts = <<>>
    /\ outcomes = <<>>
    /\ pickle = NoFile
    /\ dbfit = <<>>
    /\ clusterDF = <<>>
    /\ ind = 0
    /\ clusterNames = <<>>
    /\ comparedPO = <<>>
    /\ printed = <<>>
    /\ error = ""

\* line 34
CorrReadCsv ==
    /\ pc = "corr.read_csv"
    /\ csvDF' \in ListTables
    /\ pc' = "corr.cleanWholeDF"
    /\ UNCHANGED <<textVars, printed, args, df, cleanedValueCounts, outcomes,
                   pickle, dbfit, clusterDF, ind, clusterNames, comparedPO,
                   error>>

\* line 40
CorrCleanWholeDF ==
    /\ pc = "corr.cleanWholeDF"
    /\ printed' = Append(printed, cleanWholeDF(csvDF).found)
    /\ df' = cleanWholeDF(csvDF).df
    /\ pc' = "corr.plaintiffList"
    /\ UNCHANGED <<textVars, args, csvDF, cleanedValueCounts, outcomes,
                   pickle, dbfit, clusterDF, ind, clusterNames, comparedPO,
                   error>>

\* the rows after row i whose plaintiff cleans to '': on each of them
\* cleanPlaintiff stops in the debugger (line 122)
BlankRowsAfter(rows, i) ==
    {r \in (i + 1)..Len(rows) : cleanPlaintiff(rows[r].Plaintiff) = <<>>}

\* line 41, up to the first stop in the debugger or, with none, to the end
CorrPlaintiffList ==
    /\ pc = "corr.plaintiffList"
    /\ IF BlankRowsAfter(df, 0) = {}
       THEN /\ cleanedValueCounts' = plaintiffList(df)[1]
            /\ df' = plaintiffList(df)[2]
            /\ pc' = "corr.outcomeList"
            /\ UNCHANGED ind
       ELSE /\ ind' = SetMin(BlankRowsAfter(df, 0))
            /\ pc' = "corr.pdb"
            /\ UNCHANGED <<cleanedValueCounts, df>>
    /\ UNCHANGED <<textVars, printed, args, csvDF, outcomes, pickle, dbfit,
                   clusterDF, clusterNames, comparedPO, error>>

\* 'c' at the pdb prompt: cleanPlaintiff returns '' for row ind, and
\* plaintiffList goes on to the next stop or to its end
CorrDebuggerContinue ==
    /\ pc = "corr.pdb"
    /\ IF BlankRowsAfter(df, ind) = {}
       THEN /\ cleanedValueCounts' = plaintiffList(df)[1]
            /\ df' = plaintiffList(df)[2]
            /\ pc' = "corr.outcomeList"
            /\ UNCHANGED ind
       ELSE /\ ind' = SetMin(BlankRowsAfter(df, ind))
            /\ UNCHANGED <<cleanedValueCounts, df, pc>>
    /\ UNCHANGED <<textVars, printed, args, csvDF, outcomes, pickle, dbfit,
                   clusterDF, clusterNames, comparedPO, error>>

\* 'q' at the pdb prompt, or no input to read: bdb.BdbQuit ends the run
CorrDebuggerQuit ==
    /\ pc = "corr.pdb"
    /\ pc' = "aborted"
    /\ error' = "BdbQuit"
    /\ UNCHANGED <<textVars, printed, args, csvDF, df, cleanedValueCounts,
                   outcomes, pickle, dbfit, clusterDF, ind, clusterNames,
                   comparedPO>>

\* line 42
CorrOutcomeList ==
    /\ pc = "corr.outcomeList"
    /\ outcomes' = outcomeList(df)[1]
    /\ df' = outcomeList(df)[2]
    /\ pc' = "corr.done"
    /\ UNCHANGED <<textVars, printed, args, csvDF, cleanedValueCounts, pickle,
                   dbfit, clusterDF, ind, clusterNames, comparedPO, error>>

NextCorrelations ==
    \/ CorrReadCsv
    \/ CorrCleanWholeDF
    \/ CorrPlaintiffList
    \/ CorrDebuggerContinue
    \/ CorrDebuggerQuit
    \/ CorrOutcomeList

SpecCorrelations == InitCorrelations /\ [][NextCorrelations]_vars

RECURSIVE SumOfCounts(_)
SumOfCounts(counts) ==
    IF counts = <<>> THEN 0 ELSE counts[1].count + SumOfCounts(Tail(counts))

\* counts is the histogram of a column: each value once, with the number
\* of rows that have it
HistogramOf(counts, column) ==
    /\ \A a, b \in DOMAIN counts : a # b => counts[a].name # counts[b].name
    /\ {counts[k].name : k \in DOMAIN counts} = Range(column)
    /\ \A k \in DOMAIN counts : counts[k].count = CountOf(column, counts[k].name)
    /\ SumOfCounts(counts) = Len(column)

\* rows are the rows of before, in order, each with one more field
ColumnAdded(rows, before, field) ==
    /\ Len(rows) = Len(before)
    /\ \A i \in DOMAIN rows :
          /\ DOMAIN rows[i] = DOMAIN before[i] \cup {field}
          /\ field \notin DOMAIN before[i]
          /\ \A f \in DOMAIN before[i] : rows[i][f] = before[i][f]

\* the table without a column
Without(rows, field) ==
    [i \in DOMAIN rows |-> [f \in DOMAIN rows[i] \ {field} |-> rows[i][f]]]

\* C16: plaintiffList and outcomeList keep every row, in order and with
\* its fields unchanged, and only add the cleaned column, also for rows
\* whose name cleans to '' or to the blank sentinel; the histogram has each
\* cleaned value once, with the number of its rows, and sums to the rows.
C16_ListsKeepRows ==
    /\ pc = "corr.outcomeList"
          => /\ ColumnAdded(df, drop_duplicates(csvDF), "PlaintiffCleaned")
             /\ HistogramOf(cleanedValueCounts, Column(df, "PlaintiffCleaned"))
    /\ pc = "corr.done"
          => /\ ColumnAdded(Without(df, "OutcomeCleaned"),
                            drop_duplicates(csvDF), "PlaintiffCleaned")
             /\ ColumnAdded(df, Without(df, "OutcomeCleaned"), "OutcomeCleaned")
             /\ HistogramOf(cleanedValueCounts, Column(df, "PlaintiffCleaned"))
             /\ HistogramOf(outcomes, Column(df, "OutcomeCleaned"))

\* both lists built over a row whose name cleans to '' and a blank row
C16_Witness ==
    /\ pc = "corr.done"
    /\ \E i, j \in DOMAIN df :
          /\ df[i].PlaintiffCleaned = <<>>
          /\ df[j].PlaintiffCleaned = BlankOrNull
          /\ df[j].OutcomeCleaned = BlankOrNull
    /\ Len(cleanedValueCounts) >= 3

-----------------------------------------------------------------------------
(* dbscanFit on a pickled matrix and on the same matrix with its names
   in another order: main lines 332 to 336 *)

FitNames == << <<"A">>, <<"B">>, <<"C">>, <<"D">>, <<"E">>, <<"F">> >>

\* the pickled symmetric matrices over MaxRows names or fewer
FitFiles ==
    UNION { { Matrix(SubSeq(FitNames, 1, n), v) : v \in SymmetricValues(n) } :
            n \in 1..MaxRows }

\* -p without -e, so eps is 0.1: every value of EpsArgs links the same
\* pairs of names of FitFiles
InitFit ==
    /\ TextIdle
    /\ pc = "fit.read_pickle"
    /\ args = Args(FALSE, TRUE, Zero)
    /\ csvDF = <<>>
    /\ df = <<>>
    /\ cleanedValueCounts = <<>>
    /\ outcomes = <<>>
    /\ pickle = NoFile
    /\ dbfit = <<>>
    /\ clusterDF = <<>>
    /\ ind = 0
    /\ clusterNames = <<>>
    /\ comparedPO = <<>>
    /\ printed = <<>>
    /\ error = ""

\* the file dbscanFit is given
FitReadPickle ==
    /\ pc = "fit.read_pickle"
    /\ pickle' \in FitFiles
    /\ pc' = "fit.dbscanFit"
    /\ UNCHANGED <<textVars, printed, args, csvDF, df, cleanedValueCounts,
                   outcomes, dbfit, clusterDF, ind, clusterNames, comparedPO,
                   error>>

\* lines 332-336
FitDbscanFit ==
    /\ pc = "fit.dbscanFit"
    /\ dbfit' = dbscanFit(pickle, EpsOf(args), MinSamples)
    /\ pc' = "fit.fitted"
    /\ UNCHANGED <<textVars, printed, args, csvDF, df, cleanedValueCounts,
                   outcomes, pickle, clusterDF, ind, clusterNames, comparedPO,
                   error>>

\* dbscanFit again, on the matrix with its names in another order
FitReordered ==
    /\ pc = "fit.fitted"
    /\ \E order \in Permutations(DOMAIN pickle.index) :
          /\ pickle' = Reordered(order)
          /\ dbfit' = dbscanFit(Reordered(order), EpsOf(args), MinSamples)
    /\ pc' = "fit.refitted"
    /\ UNCHANGED <<textVars, printed, args, csvDF, df, cleanedValueCounts,
                   outcomes, clusterDF, ind, clusterNames, comparedPO, error>>

NextFit == FitReadPickle \/ FitDbscanFit \/ FitReordered

SpecFit == InitFit /\ [][NextFit]_vars

\* the fit is the partition into connected components
ClustersAreComponents ==
    /\ \A i, j \in DOMAIN dbfit :
          (dbfit[i] # NoiseLabel /\ dbfit[i] = dbfit[j])
              <=> (j \in ComponentOf({i}) /\ Cardinality(ComponentOf({i})) >= 2)
    /\ \A i \in DOMAIN dbfit :
          /\ dbfit[i] # NoiseLabel => IsCore(i)
          /\ dbfit[i] = NoiseLabel
                <=> \A j \in DOMAIN dbfit : j # i => ~WithinEps(i, j)

\* the fit of the reordered matrix is the same partition of the names
RefitSamePartition ==
    (pc = "fit.fitted" /\ pc' = "fit.refitted")
        => LET order == [i \in DOMAIN pickle.index |->
                            CHOOSE k \in DOMAIN pickle.index :
                                pickle.index[k] = pickle'.index[i]]
           IN  /\ pickle' = Reordered(order)
               /\ SamePartition(dbfit, dbfit', order)

\* C19: with min_samples = 2 and a symmetric matrix with diagonal 1, the
\* partition of dbscanFit is the same for every order of the names: the
\* clusters are the connected components of two names or more of the graph
\* linking names within eps, every clustered name is a core point, and the
\* noise names are those with no other name within eps.
C19_ClustersAreComponents ==
    /\ []((pc \in {"fit.fitted", "fit.refitted"} /\ SymmetricMatrix)
             => ClustersAreComponents)
    /\ [][SymmetricMatrix => RefitSamePartition]_vars

\* a refit, in another order, of a chain of three names, the ends of it
\* not within eps of each other, and a name on its own
C19_Witness ==
    /\ pc = "fit.refitted"
    /\ SymmetricMatrix
    /\ pickle.index[1] # FitNames[1]
    /\ \E a, b, c, d \in DOMAIN dbfit :
          /\ WithinEps(a, b) /\ WithinEps(b, c) /\ ~WithinEps(a, c)
          /\ dbfit[a] = dbfit[c] /\ dbfit[a] # NoiseLabel
          /\ dbfit[d] = NoiseLabel

\* C8: a run of main with -s or -p goes through its stages in order,
\* duplicate removal first, and completes: it does not abort.
C8_RunCompletes ==
    (args.similarity \/ args.picklefile) => pc # "aborted"

-----------------------------------------------------------------------------
(* Calls of cleanOutcome on bounded text *)

\* the longest outcome text, in tokens
MaxTokens == 4

OutcomeTokens ==
    { <<"D","i","s","m","i","s","s","e","d">>,
      <<" ","0","7","/","1","7","/","2","0","1","7"," ","1",":","1","5">>,
      <<" ","P","M">>,
      <<" ","D","O","E">>,
      <<".">>,
      <<" ","x">>,
      <<" ">> }

RECURSIVE TextsOf(_, _)
TextsOf(tokens, n) ==
    IF n = 0
    THEN {<<>>}
    ELSE LET shorter == TextsOf(tokens, n - 1)
         IN  shorter \cup {t \o k : t \in shorter, k \in tokens}

OutcomeInputs == TextsOf(OutcomeTokens, MaxTokens) \cup {NaN}

RunIdle ==
    /\ pc = "idle"
    /\ args = Args(FALSE, FALSE, Zero)
    /\ csvDF = <<>>
    /\ df = <<>>
    /\ cleanedValueCounts = <<>>
    /\ outcomes = <<>>
    /\ pickle = NoFile
    /\ dbfit = <<>>
    /\ clusterDF = <<>>
    /\ ind = 0
    /\ clusterNames = <<>>
    /\ comparedPO = <<>>
    /\ printed = <<>>
    /\ error = ""

InitOutcome ==
    /\ RunIdle
    /\ textFn = "cleanOutcome"
    /\ textIn \in OutcomeInputs
    /\ textOut = <<>>
    /\ textPc = "call"

\* outcomes.apply(cleanOutcome) on one field
OutcomeCall ==
    /\ textFn = "cleanOutcome"
    /\ textPc = "call"
    /\ textOut = <<>>
    /\ textOut' = <<cleanOutcome(textIn)>>
    /\ textPc' = "returned"
    /\ UNCHANGED <<textFn, textIn, runVars>>

\* cleanOutcome applied to a string it returned
OutcomeReapply ==
    /\ textFn = "cleanOutcome"
    /\ textPc = "returned"
    /\ Len(textOut) = 1
    /\ textOut' = Append(textOut, cleanOutcome(textOut[1]))
    /\ UNCHANGED <<textFn, textIn, textPc, runVars>>

NextOutcome == OutcomeCall \/ OutcomeReapply

SpecOutcome == InitOutcome /\ [][NextOutcome]_vars

\* the text holds a date-time ' MM/DD/YYYY H:MM AM|PM'
HasDateTime(s) == \E i \in 1..Len(s) : datetimeMatchAt(s, i)

\* the text holds a date MM/DD/YYYY, the first part of a date-time
HasDate(s) ==
    \E i \in 1..Len(s) :
    \E a \in AfterRun(s, i, DigitChars, 1, 2, "/") :
    \E b \in AfterRun(s, a, DigitChars, 1, 2, "/") :
       /\ b + 3 <= Len(s)
       /\ \A x \in b..(b + 3) : s[x] \in DigitChars

DismissedAtDateTime ==
    <<"D","i","s","m","i","s","s","e","d"," ","0","7","/","1","7","/",
      "2","0","1","7"," ","1",":","1","5"," ","P","M">>

\* C2: cleanOutcome removes a date-time ' MM/DD/YYYY H:MM AM|PM' and all
\* after it: the result of an input that holds one holds no part of it,
\* and "Dismissed 07/17/2017 1:15 PM" gives "Dismissed".
C2_DateTimeRemoved ==
    (textFn = "cleanOutcome" /\ textPc = "returned" /\ HasDateTime(textIn))
        => /\ ~HasDate(textOut[1])
           /\ textIn = DismissedAtDateTime => textOut[1] = Dismissed

EndsInCaps(s) == \E i \in 1..Len(s) : endCapsMatchAt(s, i)

-----------------------------------------------------------------------------
(* Calls of cleanPlaintiff on bounded text *)

\* the longest plaintiff name, in tokens
MaxNameTokens == 3

PlaintiffTokens ==
    { <<"A","c","m","e">>,
      <<" ","L","L","C">>,
      <<",">>,
      <<"a","/","s","/","o">>,
      <<" ","I","n","c">>,
      <<" ","C","o",".">>,
      <<" ","&">>,
      <<" ">> }

\* the two names of the module docstring, lines 7 and 8
VictoriaLogan ==
    <<"V","i","c","t","o","r","i","a"," ","F","i","r","e"," ","a","n",
      "d"," ","C","a","s","u","a","l","t","y"," ","C","o","."," ","a",
      "/","s","/","o"," ","R","o","b","e","r","t"," ","L","o","g","a",
      "n">>
VictoriaMulero ==
    <<"V","i","c","t","o","r","i","a"," ","F","i","r","e"," ","a","n",
      "d"," ","C","a","s","u","a","l","t","y"," ","C","o","m","p","a",
      "n","y"," ","a","/","s","/","o"," ","F","r","a","n","c","i","s",
      "c","o"," ","M","u","l","e","r","o">>

\* a blank field is read as NaN, so no name is the empty text
PlaintiffInputs ==
    (TextsOf(PlaintiffTokens, MaxNameTokens) \ {<<>>})
        \cup {VictoriaLogan, VictoriaMulero, NaN}

InitPlaintiff ==
    /\ RunIdle
    /\ textFn = "cleanPlaintiff"
    /\ textIn \in PlaintiffInputs
    /\ textOut = <<>>
    /\ textPc = "call"

\* lines 102-123: a name that cleans to '' stops in the debugger at line
\* 122, any other is returned
PlaintiffCall ==
    /\ textFn = "cleanPlaintiff"
    /\ textPc = "call"
    /\ IF cleanPlaintiff(textIn) = <<>>
       THEN textPc' = "pdb" /\ UNCHANGED textOut
       ELSE textPc' = "returned" /\ textOut' = <<cleanPlaintiff(textIn)>>
    /\ UNCHANGED <<textFn, textIn, runVars>>

\* 'c' at the pdb prompt: line 123 returns cleanedOut, which is ''
DebuggerContinue ==
    /\ textFn = "cleanPlaintiff"
    /\ textPc = "pdb"
    /\ textOut' = <<cleanPlaintiff(textIn)>>
    /\ textPc' = "returned"
    /\ UNCHANGED <<textFn, textIn, runVars>>

\* 'q' at the pdb prompt, or no input to read: bdb.BdbQuit
DebuggerQuit ==
    /\ textFn = "cleanPlaintiff"
    /\ textPc = "pdb"
    /\ textPc' = "raised"
    /\ error' = "BdbQuit"
    /\ UNCHANGED <<textFn, textIn, textOut, printed, pc, args, csvDF, df,
                   cleanedValueCounts, outcomes, pickle, dbfit, clusterDF,
                   ind, clusterNames, comparedPO>>

NextPlaintiff == PlaintiffCall \/ DebuggerContinue \/ DebuggerQuit

SpecPlaintiff == InitPlaintiff /\ [][NextPlaintiff]_vars

\* the text before the first marker
BeforeMarker(s) == Strip(llcMatchSub(s))

\* a word that is an entity term
IsEntityWord(w) == strip_punct(w) \in Range(cleanco_terms)

\* the text before the trailing entity suffix of a name, when its last word
\* before the first marker is one
Stem(s) ==
    LET cut   == BeforeMarker(s)
        parts == Split(cut)
    IN  IF parts # <<>> /\ IsEntityWord(parts[Len(parts)])
        THEN Strip(SubSeq(cut, 1, Len(cut) - Len(parts[Len(parts)])))
        ELSE cut

\* trailing entity suffixes, none among them
SuffixVariants ==
    { <<>>, <<" ","I","n","c">>, <<" ","C","o",".">>, <<" ","C","o","r","p">> }

\* a first marker and the text after it, none among them
MarkerVariants ==
    { <<>>, <<" ","a","/","s","/","o"," ","A","c","m","e">>, <<","," ","x">> }

\* the names that differ from s only in the trailing entity suffix and in
\* the text from the first marker on
VariantsOf(s) == {Stem(s) \o x \o m : x \in SuffixVariants, m \in MarkerVariants}

VictoriaCleaned ==
    <<"V","I","C","T","O","R","I","A"," ","F","I","R","E"," ","A","N",
      "D"," ","C","A","S","U","A","L","T","Y">>

PlainStem(s) ==
    /\ strip_tail(Stem(s)) # <<>>
    /\ basename(Stem(s), cleanco_terms) = strip_tail(Stem(s))

-----------------------------------------------------------------------------
(* calls of either cleaner *)

InitText == InitOutcome \/ InitPlaintiff

NextText == NextOutcome \/ NextPlaintiff

SpecText == InitText /\ [][NextText]_vars

\* C17: for NaN, cleanOutcome and cleanPlaintiff both return exactly
\* "Blank or NULL", with no cleaning applied and nothing raised.
C17_NaNIsBlankOrNull ==
    (textIn = NaN /\ textPc # "call")
        => /\ textPc = "returned"
           /\ textOut[1] = BlankOrNull
           /\ error = ""

\* cleanPlaintiff has returned for NaN
C17_Witness ==
    /\ textFn = "cleanPlaintiff"
    /\ textIn = NaN
    /\ textPc = "returned"
    /\ textOut = <<BlankOrNull>>

\* C4: cleanPlaintiff never returns the empty string; a name whose cleaning
\* collapses to "" makes the call fail with EmptyResult.
C4_NeverReturnsEmpty ==
    textFn = "cleanPlaintiff"
        => /\ textPc = "returned" => textOut[1] # <<>>
           /\ textPc = "raised" => error = "EmptyResult"

=============================================================================
